---- MODULE Spec2Model ----
(***************************************************************************)
(* A model of GenerationalArena<T, ELEMENTS_COUNT> (src/src/lib.rs): a     *)
(* fixed-capacity pool of slots with an intrusive free list and one shared *)
(* generation counter.                                                     *)
(*                                                                         *)
(* Each method is an operator from the arena it is called on (self) and    *)
(* its arguments to the arena it leaves, with what it returns or the       *)
(* message it panics with; each method is one action, which applies the    *)
(* operator to the current fields.  A panic ends the run: `panicked` then  *)
(* holds the message and the fields hold what the method had written       *)
(* before it unwound.                                                      *)
(***************************************************************************)
EXTENDS Integers, Sequences, FiniteSets, TLC

\* ---- bounds of the model ------------------------------------------------
\* the const generic parameter ELEMENTS_COUNT (lib.rs:69)
ELEMENTS_COUNT == 2
\* the width in bits of usize, the type under GenerationCounter (lib.rs:18)
USIZE_BITS == 2

USIZE_MAX == 2 ^ USIZE_BITS - 1

\* ---- Option, Result -------------------------------------------------------
None == << >>
Some(x) == << x >>
Ok(x) == [tag |-> "Ok", val |-> x]
Err(x) == [tag |-> "Err", val |-> x]

\* ---- the types ------------------------------------------------------------
\* T: the arena never looks into a value, two of them tell a value from another
T == {41, 42}
SlotIndex == 0 .. (ELEMENTS_COUNT - 1)

\* struct GenerationIndex: the handles a caller can present, those of this
\* arena and, the type being shared by all arenas, those another arena has
\* returned (index ELEMENTS_COUNT stands for every out-of-range index)
GenerationIndex ==
    {[index |-> i, generation |-> g] : i \in 0 .. ELEMENTS_COUNT, g \in 1 .. USIZE_MAX}

\* enum Slot<T>
Free(next_free) == [tag |-> "Free", next_free |-> next_free]
Occupied(gen, value) == [tag |-> "Occupied", generation |-> gen, value |-> value]

\* struct GenerationalArena
Arena(its, head, gen, n) ==
    [items |-> its, free_list_head |-> head, generation |-> gen, len |-> n]

\* how a call ends: it returns ret, or it panics with a message; self is the
\* arena it leaves
Returned(self, ret) == [self |-> self, panic |-> None, ret |-> ret]
Panicked(self, message) == [self |-> self, panic |-> Some(message)]

\* ---- GenerationCounter ------------------------------------------------------
GenerationCounter_new == 1

\* GenerationCounter::next_generation: Some(the next counter), or None where
\* checked_add overflows the usize and expect() panics
next_generation_stuck(g) == Some(g)
next_generation_skip(g) == IF g + 2 > USIZE_MAX THEN None ELSE Some(g + 2)
next_generation_wrapping(g) == Some((g + 1) % (2 ^ USIZE_BITS))
next_generation(g) == IF g + 1 > USIZE_MAX THEN None ELSE Some(g + 1)

\* ---- GenerationalArena::new ------------------------------------------------
initialize_slots_ring ==
    [i \in SlotIndex |-> Free(Some((i + 1) % ELEMENTS_COUNT))]

initialize_slots_unlinked ==
    [i \in SlotIndex |-> Free(None)]

initialize_slots ==
    [i \in SlotIndex |->
        IF i = ELEMENTS_COUNT - 1 THEN Free(None) ELSE Free(Some(i + 1))]

GenerationalArena_new ==
    Arena(initialize_slots, Some(0), GenerationCounter_new, 0)

\* ---- GenerationalArena::try_insert ------------------------------------------
try_insert_stamp_new(self, value) ==
    IF self.free_list_head = None
    THEN Returned(self, Err(value))
    ELSE LET i == self.free_list_head[1] IN
         IF i \notin DOMAIN self.items
         THEN Panicked(self, "index out of bounds")
         ELSE IF self.items[i].tag = "Occupied"
         THEN Panicked(self, "corrupt free list")
         ELSE LET gen_index == [index |-> i, generation |-> self.generation] IN
              Returned(
                  [self EXCEPT
                      !.free_list_head = self.items[i].next_free,
                      !.len = self.len + 1,
                      !.items[gen_index.index] = Occupied(GenerationCounter_new, value)],
                  Ok(gen_index))

try_insert_bump(self, value) ==
    IF self.free_list_head = None
    THEN Returned(self, Err(value))
    ELSE LET i == self.free_list_head[1] IN
         IF i \notin DOMAIN self.items
         THEN Panicked(self, "index out of bounds")
         ELSE IF self.items[i].tag = "Occupied"
         THEN Panicked(self, "corrupt free list")
         ELSE LET gen_index == [index |-> i, generation |-> self.generation] IN
              Returned(
                  [self EXCEPT
                      !.free_list_head = self.items[i].next_free,
                      !.len = self.len + 1,
                      !.generation = IF self.generation < USIZE_MAX
                                     THEN self.generation + 1 ELSE self.generation,
                      !.items[gen_index.index] = Occupied(self.generation, value)],
                  Ok(gen_index))

try_insert(self, value) ==
    IF self.free_list_head = None
    THEN \* the value goes back to the caller
         Returned(self, Err(value))
    ELSE LET i == self.free_list_head[1] IN
         IF i \notin DOMAIN self.items
         THEN Panicked(self, "index out of bounds")
         ELSE IF self.items[i].tag = "Occupied"
         THEN Panicked(self, "corrupt free list")
         ELSE LET gen_index == [index |-> i, generation |-> self.generation] IN
              Returned(
                  [self EXCEPT
                      !.free_list_head = self.items[i].next_free,
                      !.len = self.len + 1,
                      !.items[gen_index.index] = Occupied(self.generation, value)],
                  Ok(gen_index))

\* ---- GenerationalArena::remove ----------------------------------------------
remove_any_generation(self, generation_index) ==
    IF ~(generation_index.index < ELEMENTS_COUNT)
    THEN Panicked(self, "assertion failed: generation_index.index < ELEMENTS_COUNT")
    ELSE LET slot == self.items[generation_index.index] IN
         IF slot.tag = "Occupied"
         THEN LET replaced == [self EXCEPT !.items[generation_index.index] =
                                               Free(self.free_list_head)]
                  next == next_generation(self.generation)
              IN  IF next = None
                  THEN Panicked(replaced, "exhausted generation counter")
                  ELSE Returned(
                           [replaced EXCEPT
                               !.generation = next[1],
                               !.free_list_head = Some(generation_index.index),
                               !.len = self.len - 1],
                           Some(slot.value))
         ELSE Returned(self, None)

remove_restamp(self, generation_index) ==
    IF ~(generation_index.index < ELEMENTS_COUNT)
    THEN Panicked(self, "assertion failed: generation_index.index < ELEMENTS_COUNT")
    ELSE LET slot == self.items[generation_index.index] IN
         IF slot.tag = "Occupied" /\ generation_index.generation = slot.generation
         THEN LET replaced == [self EXCEPT !.items[generation_index.index] =
                                               Free(self.free_list_head)]
                  next == next_generation(self.generation)
              IN  IF next = None
                  THEN Panicked(replaced, "exhausted generation counter")
                  ELSE Returned(
                           [replaced EXCEPT
                               !.generation = next[1],
                               !.free_list_head = Some(generation_index.index),
                               !.len = self.len - 1,
                               !.items = [i \in DOMAIN replaced.items |->
                                   IF replaced.items[i].tag = "Occupied"
                                   THEN Occupied(next[1], replaced.items[i].value)
                                   ELSE replaced.items[i]]],
                           Some(slot.value))
         ELSE Returned(self, None)

remove_self_link(self, generation_index) ==
    IF ~(generation_index.index < ELEMENTS_COUNT)
    THEN Panicked(self, "assertion failed: generation_index.index < ELEMENTS_COUNT")
    ELSE LET slot == self.items[generation_index.index] IN
         IF slot.tag = "Occupied" /\ generation_index.generation = slot.generation
         THEN LET replaced == [self EXCEPT !.items[generation_index.index] =
                                               Free(Some(generation_index.index))]
                  next == next_generation(self.generation)
              IN  IF next = None
                  THEN Panicked(replaced, "exhausted generation counter")
                  ELSE Returned(
                           [replaced EXCEPT
                               !.generation = next[1],
                               !.free_list_head = Some(generation_index.index),
                               !.len = self.len - 1],
                           Some(slot.value))
         ELSE Returned(self, None)

remove_keep_head(self, generation_index) ==
    IF ~(generation_index.index < ELEMENTS_COUNT)
    THEN Panicked(self, "assertion failed: generation_index.index < ELEMENTS_COUNT")
    ELSE LET slot == self.items[generation_index.index] IN
         IF slot.tag = "Occupied" /\ generation_index.generation = slot.generation
         THEN LET replaced == [self EXCEPT !.items[generation_index.index] =
                                               Free(self.free_list_head)]
                  next == next_generation(self.generation)
              IN  IF next = None
                  THEN Panicked(replaced, "exhausted generation counter")
                  ELSE Returned(
                           [replaced EXCEPT
                               !.generation = next[1],
                               !.len = self.len - 1],
                           Some(slot.value))
         ELSE Returned(self, None)

remove_assert_le(self, generation_index) ==
    IF ~(generation_index.index <= ELEMENTS_COUNT)
    THEN Panicked(self, "assertion failed: generation_index.index < ELEMENTS_COUNT")
    ELSE IF generation_index.index \notin DOMAIN self.items
    THEN Panicked(self, "index out of bounds")
    ELSE LET slot == self.items[generation_index.index] IN
         IF slot.tag = "Occupied" /\ generation_index.generation = slot.generation
         THEN LET replaced == [self EXCEPT !.items[generation_index.index] =
                                               Free(self.free_list_head)]
                  next == next_generation(self.generation)
              IN  IF next = None
                  THEN Panicked(replaced, "exhausted generation counter")
                  ELSE Returned(
                           [replaced EXCEPT
                               !.generation = next[1],
                               !.free_list_head = Some(generation_index.index),
                               !.len = self.len - 1],
                           Some(slot.value))
         ELSE Returned(self, None)

remove(self, generation_index) ==
    IF ~(generation_index.index < ELEMENTS_COUNT)
    THEN Panicked(self, "assertion failed: generation_index.index < ELEMENTS_COUNT")
    ELSE LET slot == self.items[generation_index.index] IN
         IF slot.tag = "Occupied" /\ generation_index.generation = slot.generation
         THEN \* std::mem::replace first, next_generation second: when
              \* next_generation panics the slot is Free already, while
              \* free_list_head and len are not yet written
              LET replaced == [self EXCEPT !.items[generation_index.index] =
                                               Free(self.free_list_head)]
                  next == next_generation(self.generation)
              IN  IF next = None
                  THEN Panicked(replaced, "exhausted generation counter")
                  ELSE Returned(
                           [replaced EXCEPT
                               !.generation = next[1],
                               !.free_list_head = Some(generation_index.index),
                               !.len = self.len - 1],
                           Some(slot.value))
         ELSE Returned(self, None)

\* ---- GenerationalArena::capacity --------------------------------------------
capacity_total(self) == ELEMENTS_COUNT
capacity(self) == self.len

\* ---- GenerationalArena::get -------------------------------------------------
get_any_generation(self, generation_index) ==
    IF generation_index.index \in DOMAIN self.items
       /\ self.items[generation_index.index].tag = "Occupied"
    THEN Some(self.items[generation_index.index].value)
    ELSE None

get(self, generation_index) ==
    IF generation_index.index \in DOMAIN self.items
       /\ self.items[generation_index.index].tag = "Occupied"
       /\ self.items[generation_index.index].generation = generation_index.generation
    THEN Some(self.items[generation_index.index].value)
    ELSE None

\* ---- GenerationalArena::get_mut, with the caller's write of new_value through
\* the &mut T it returns; ret is the value the reference pointed at
get_mut_restamp(self, generation_index, new_value) ==
    IF generation_index.index \in DOMAIN self.items
       /\ self.items[generation_index.index].tag = "Occupied"
       /\ self.items[generation_index.index].generation = generation_index.generation
    THEN Returned([self EXCEPT !.items[generation_index.index] =
                                   Occupied(self.generation, new_value)],
                  Some(self.items[generation_index.index].value))
    ELSE Returned(self, None)

get_mut(self, generation_index, new_value) ==
    IF generation_index.index \in DOMAIN self.items
       /\ self.items[generation_index.index].tag = "Occupied"
       /\ self.items[generation_index.index].generation = generation_index.generation
    THEN Returned([self EXCEPT !.items[generation_index.index].value = new_value],
                  Some(self.items[generation_index.index].value))
    ELSE Returned(self, None)

\* ---- GenerationalArena::contains --------------------------------------------
contains_occupied(self, generation_index) ==
    /\ generation_index.index \in DOMAIN self.items
    /\ self.items[generation_index.index].tag = "Occupied"

contains(self, generation_index) == get(self, generation_index) # None

\* ---- Option::unwrap, as the tests call it on what get returns (lib.rs:284) ----
Option_unwrap(option) ==
    IF option = None
    THEN [panic |-> Some("called Option::unwrap() on a None value")]
    ELSE [panic |-> None, ret |-> option[1]]

\* ---- state ----------------------------------------------------------------
VARIABLES
    items,           \* Vec<Slot<T>>: a function on SlotIndex
    free_list_head,  \* Option<SlotIndex>
    generation,      \* GenerationCounter
    len,             \* usize
    panicked,        \* None, or Some(message) once a method has panicked
    watched,         \* history: None, or Some(h) for one handle h, chosen freely
                     \*   among those try_insert has returned (any of them: what
                     \*   holds of the watched handle holds of every handle)
    watched_removed, \* history: remove has returned a value for the watched handle
    removals,        \* history: the number of removes that returned a value
    batch,           \* history: [handle, value] for each try_insert that succeeded
                     \*   since the last remove that returned a value; value is
                     \*   what the caller last put there (try_insert or get_mut)
    M                \* the abstract bounded map run side by side with the arena:
                     \*   a set of [handle, value], one per key

fields == << items, free_list_head, generation, len >>
history == << watched, watched_removed, removals, batch, M >>
vars == << items, free_list_head, generation, len, panicked,
           watched, watched_removed, removals, batch, M >>

\* the abstract bounded map: its keys, the value at a key, and its operations
\* (insert under the key the arena hands out while fewer than ELEMENTS_COUNT
\* keys are held, remove a key, write the value at a key)
M_keys(m) == {e.handle : e \in m}
M_get(m, h) == IF h \in M_keys(m) THEN Some((CHOOSE e \in m : e.handle = h).value) ELSE None
M_insert(m, h, value) ==
    IF Cardinality(M_keys(m)) < ELEMENTS_COUNT
    THEN {e \in m : e.handle # h} \cup {[handle |-> h, value |-> value]}
    ELSE m
M_remove(m, h) == {e \in m : e.handle # h}
M_write(m, h, value) ==
    {IF e.handle = h THEN [e EXCEPT !.value = value] ELSE e : e \in m}

\* the arena the fields make up
arena == Arena(items, free_list_head, generation, len)

\* the fields become those of self; a panic is recorded
Becomes(r) ==
    /\ items' = r.self.items
    /\ free_list_head' = r.self.free_list_head
    /\ generation' = r.self.generation
    /\ len' = r.self.len
    /\ panicked' = r.panic

Init ==
    /\ ELEMENTS_COUNT > 0
    /\ items = GenerationalArena_new.items
    /\ free_list_head = GenerationalArena_new.free_list_head
    /\ generation = GenerationalArena_new.generation
    /\ len = GenerationalArena_new.len
    /\ panicked = None
    /\ watched = None
    /\ watched_removed = FALSE
    /\ removals = 0
    /\ batch = {}
    /\ M = {}

\* a call of try_insert
TryInsert ==
    \E value \in T :
        LET r == try_insert(arena, value) IN
        /\ panicked = None
        /\ Becomes(r)
        /\ IF r.panic = None /\ r.ret.tag = "Ok"
           THEN /\ watched' \in IF watched = None
                                THEN {None, Some(r.ret.val)} ELSE {watched}
                /\ batch' = batch \cup {[handle |-> r.ret.val, value |-> value]}
                /\ M' = M_insert(M, r.ret.val, value)
                /\ UNCHANGED << watched_removed, removals >>
           ELSE UNCHANGED history

\* a call of remove
Remove ==
    \E generation_index \in GenerationIndex :
        LET r == remove(arena, generation_index) IN
        /\ panicked = None
        /\ Becomes(r)
        /\ M' = M_remove(M, generation_index)
        /\ IF r.panic = None /\ r.ret # None
           THEN /\ watched_removed' =
                       (watched_removed \/ watched = Some(generation_index))
                /\ removals' = removals + 1
                /\ batch' = {}
                /\ UNCHANGED watched
           ELSE UNCHANGED << watched, watched_removed, removals, batch >>

\* a call of get_mut and the write through the reference it returns
GetMut ==
    \E generation_index \in GenerationIndex, new_value \in T :
        LET r == get_mut(arena, generation_index, new_value) IN
        /\ panicked = None
        /\ Becomes(r)
        /\ M' = M_write(M, generation_index, new_value)
        /\ IF r.panic = None /\ r.ret # None
           THEN /\ batch' = {IF b.handle = generation_index
                             THEN [b EXCEPT !.value = new_value] ELSE b : b \in batch}
                /\ UNCHANGED << watched, watched_removed, removals >>
           ELSE UNCHANGED << watched, watched_removed, removals, batch >>

\* get, contains and capacity take &self: they are the operators above, which
\* the properties apply to the arena of every reachable state
Next == TryInsert \/ Remove \/ GetMut

Spec == Init /\ [][Next]_vars

Slots ==
    {Free(n) : n \in {None} \cup {Some(i) : i \in SlotIndex}}
        \cup {Occupied(g, v) : g \in 1 .. USIZE_MAX, v \in T}

TypeOK ==
    /\ items \in [SlotIndex -> Slots]
    /\ free_list_head \in {None} \cup {Some(i) : i \in SlotIndex}
    /\ generation \in 1 .. USIZE_MAX
    /\ len \in 0 .. USIZE_MAX
    /\ watched \in {None} \cup {Some(h) : h \in GenerationIndex}
    /\ watched_removed \in BOOLEAN
    /\ removals \in 0 .. USIZE_MAX
    /\ M \subseteq [handle : GenerationIndex, value : T]

\* ---- what the properties speak of ---------------------------------------------
IsOccupied(i) == items[i].tag = "Occupied"
OccupiedSlots == {i \in SlotIndex : IsOccupied(i)}
\* a call that returned (did not panic) a present value / an Ok
ReturnedSome(r) == r.panic = None /\ r.ret # None
ReturnedNone(r) == r.panic = None /\ r.ret = None
ReturnedOk(r) == r.panic = None /\ r.ret.tag = "Ok"
\* the watched handle, once remove has returned a value for it
Tombstoned(h) == watched = Some(h) /\ watched_removed

\* ---- C1 ------------------------------------------------------------------------
\* C1 (Tombstone): once remove(h) has returned a value for a handle h, then in
\* every later state, whatever calls of try_insert, remove and get_mut have
\* followed and also when h's position is occupied again, get(h) is absent,
\* contains(h) is false and remove(h) returns absent.
C1_Tombstone ==
    \A h \in GenerationIndex :
        Tombstoned(h) =>
            /\ get(arena, h) = None
            /\ ~contains(arena, h)
            /\ ReturnedNone(remove(arena, h))

\* a removed handle whose position holds a value again
C1_Witness ==
    \E h \in GenerationIndex :
        Tombstoned(h) /\ h.index \in SlotIndex /\ IsOccupied(h.index)

\* ---- C2 ------------------------------------------------------------------------
\* C2 (Generation uniqueness): when try_insert returns a handle at the position
\* of a handle h1 that an earlier try_insert returned, the new handle's
\* generation is strictly greater than h1's; and when h1 was removed in between,
\* the new handle h2 differs from h1, get(h1) is absent and get(h2) is the value
\* just inserted.
C2_GenerationUniqueness ==
    \A h1 \in GenerationIndex, value \in T :
        LET r == try_insert(arena, value) IN
        (watched = Some(h1) /\ ReturnedOk(r) /\ r.ret.val.index = h1.index) =>
            /\ h1.generation < r.ret.val.generation
            /\ watched_removed =>
                   /\ h1 # r.ret.val
                   /\ get(r.self, h1) = None
                   /\ get(r.self, r.ret.val) = Some(value)

\* h1 was issued and removed, and a later try_insert has returned h2 at h1's
\* position
C2_Witness ==
    \E h1 \in GenerationIndex, b \in batch :
        /\ Tombstoned(h1)
        /\ b.handle.index = h1.index
        /\ b.handle # h1
        /\ get(arena, b.handle) # None

\* ---- C3 ------------------------------------------------------------------------
\* C3 (Round-trip): in every reachable state, when try_insert(v) returns Ok(h),
\* then in the arena it leaves get(h) is v and contains(h) is true.
C3_RoundTrip ==
    \A value \in T :
        LET r == try_insert(arena, value) IN
        ReturnedOk(r) =>
            /\ get(r.self, r.ret.val) = Some(value)
            /\ contains(r.self, r.ret.val)

\* a try_insert has succeeded after a removal, and another one can
C3_Witness ==
    /\ removals > 0
    /\ \E b \in batch : get(arena, b.handle) = Some(b.value)
    /\ \E value \in T : ReturnedOk(try_insert(arena, value))

\* ---- C4 ------------------------------------------------------------------------
\* C4: a remove(h) that returns a value invalidates h only: for every other
\* handle, live or stale, get and contains answer after the removal what they
\* answered before it, and every other slot is left as it was, an Occupied one
\* with its value and its stored generation, although the counter has advanced.
C4_RemoveFrame ==
    \A h \in GenerationIndex :
        LET r == remove(arena, h) IN
        ReturnedSome(r) =>
            /\ get(r.self, h) = None
            /\ r.self.generation # generation
            /\ \A other \in GenerationIndex :
                   other # h =>
                       /\ get(r.self, other) = get(arena, other)
                       /\ contains(r.self, other) = contains(arena, other)
            /\ \A i \in SlotIndex \ {h.index} : r.self.items[i] = items[i]

\* a live handle can be removed while another slot holds a value that has
\* outlived an earlier removal and a stale handle exists
C4_Witness ==
    /\ \E h \in GenerationIndex : ReturnedSome(remove(arena, h))
    /\ \E i \in SlotIndex : IsOccupied(i) /\ items[i].generation < generation
    /\ len = ELEMENTS_COUNT
    /\ watched_removed

\* ---- C5 ------------------------------------------------------------------------
\* C5 (Capacity ceiling): when all ELEMENTS_COUNT slots are Occupied, try_insert(v)
\* returns Err(v) and leaves the slots, the free-list head, the live-count and
\* the generation counter as they were.
C5_CapacityCeiling ==
    (OccupiedSlots = SlotIndex) =>
        \A value \in T : try_insert(arena, value) = Returned(arena, Err(value))

\* the arena after exactly ELEMENTS_COUNT successful insertions and no removal
C5_Witness ==
    /\ OccupiedSlots = SlotIndex
    /\ removals = 0
    /\ Cardinality(batch) = ELEMENTS_COUNT
    /\ \E value \in T : try_insert(arena, value).ret = Err(value)

\* ---- C6 ------------------------------------------------------------------------
\* C6: a handle this arena issued and remove has returned a value for is a
\* recoverable outcome, its slot being Free or occupied under a newer
\* generation: remove, get and get_mut return absent, contains returns false,
\* none of them panics, and the remove (like the get_mut) leaves slots, free
\* list, live-count and generation counter as they were.
C6_StaleHandle ==
    \A h \in GenerationIndex :
        Tombstoned(h) =>
            /\ remove(arena, h) = Returned(arena, None)
            /\ \A new_value \in T : get_mut(arena, h, new_value) = Returned(arena, None)
            /\ get(arena, h) = None
            /\ contains(arena, h) = FALSE

\* a removed handle whose slot is Free, while the other slots hold values
C6_Witness ==
    \E h \in GenerationIndex :
        /\ Tombstoned(h)
        /\ h.index \in SlotIndex
        /\ ~IsOccupied(h.index)
        /\ len = ELEMENTS_COUNT - 1

\* ---- C7 ------------------------------------------------------------------------
\* C7: in every reachable state the live-count (what capacity() returns) is the
\* number of Occupied slots, and 0 <= live-count <= ELEMENTS_COUNT.
C7_LiveCount ==
    /\ capacity(arena) = Cardinality(OccupiedSlots)
    /\ 0 <= capacity(arena)
    /\ capacity(arena) <= ELEMENTS_COUNT

\* what holds instead: the same, in the states no call has panicked in
C7_LiveCountUnlessPanicked == panicked = None => C7_LiveCount

\* ---- C8 ------------------------------------------------------------------------
\* C8 (Mutation isolation): writing new_value through get_mut(h), h live, makes
\* get(h) return new_value, and leaves the slot's stored generation and
\* position, every other slot, the free list, the live-count and the generation
\* counter as they were: h stays valid and no other handle's answer changes.
C8_MutationIsolation ==
    \A h \in GenerationIndex, new_value \in T :
        LET r == get_mut(arena, h, new_value) IN
        get(arena, h) # None =>
            /\ r.panic = None
            /\ r.ret = get(arena, h)
            /\ get(r.self, h) = Some(new_value)
            /\ contains(r.self, h)
            /\ r.self.items[h.index].tag = "Occupied"
            /\ r.self.items[h.index].generation = items[h.index].generation
            /\ \A i \in SlotIndex \ {h.index} : r.self.items[i] = items[i]
            /\ r.self.free_list_head = free_list_head
            /\ r.self.len = len
            /\ r.self.generation = generation
            /\ \A other \in GenerationIndex :
                   other # h => get(r.self, other) = get(arena, other)

\* a value has been overwritten through get_mut in a slot that has outlived a
\* removal, next to another live handle
C8_Witness ==
    \E h \in GenerationIndex, b \in batch :
        /\ get(arena, h) # None
        /\ h.generation < generation
        /\ b.handle # h
        /\ get(arena, b.handle) = Some(b.value)
        /\ get(arena, h) # get(arena, b.handle)

C10_CounterState ==
    /\ GenerationalArena_new.generation = 1
    /\ generation = 1 + removals
    /\ \A value \in T : try_insert(arena, value).self.generation = generation
    /\ \A h \in GenerationIndex :
           /\ remove(arena, h).self.generation =
                  IF ReturnedSome(remove(arena, h)) THEN generation + 1 ELSE generation
           /\ \A new_value \in T :
                  get_mut(arena, h, new_value).self.generation = generation

C10_Counter == [] C10_CounterState /\ [][generation' >= generation]_vars

\* two removals have returned a value
C10_Witness == removals = 2 /\ generation = 3

\* ---- C11 -----------------------------------------------------------------------
\* C11: get and contains are queries: for every handle, one whose position is
\* >= ELEMENTS_COUNT included (absent, no panic), contains(h) is true exactly
\* when get(h) returns a value, which is exactly when slot h.position is
\* Occupied with a stored generation equal to h.generation.  (Both take &self
\* and are operators on the arena: they have no arena to leave changed.)
C11_Valid(h) ==
    /\ h.index < ELEMENTS_COUNT
    /\ items[h.index].tag = "Occupied"
    /\ items[h.index].generation = h.generation

C11_PureQueries ==
    \A h \in GenerationIndex :
        LET found == get(arena, h)
            held == contains(arena, h)
        IN  /\ held \in BOOLEAN
            /\ held <=> (found # None)
            /\ held <=> C11_Valid(h)
            /\ C11_Valid(h) => found = Some(items[h.index].value)
            /\ ~(h.index < ELEMENTS_COUNT) => found = None /\ ~held

\* a live handle next to a stale handle of an occupied position
C11_Witness ==
    \E live \in GenerationIndex, stale \in GenerationIndex :
        /\ contains(arena, live)
        /\ stale.index < ELEMENTS_COUNT
        /\ items[stale.index].tag = "Occupied"
        /\ items[stale.index].generation > stale.generation
        /\ ~contains(arena, stale)

\* ---- C12 -----------------------------------------------------------------------
\* C12: counter exhaustion is fatal, never silent: a matching remove called while
\* the generation counter holds the largest usize panics instead of wrapping
\* (the usize has USIZE_BITS bits, a wrap would be % 2^USIZE_BITS); so in no
\* reachable state is the counter zero, and no step makes it smaller.
C12_ExhaustionState ==
    /\ generation # 0
    /\ generation \in 1 .. USIZE_MAX
    /\ \A h \in GenerationIndex :
           (generation = USIZE_MAX /\ get(arena, h) # None) =>
               /\ remove(arena, h).panic = Some("exhausted generation counter")
               /\ remove(arena, h).self.generation = USIZE_MAX

C12_Exhaustion ==
    [] C12_ExhaustionState /\ [][generation' # 0 /\ ~(generation' < generation)]_vars

\* a matching remove has panicked on the exhausted counter
C12_Witness ==
    /\ panicked = Some("exhausted generation counter")
    /\ generation = USIZE_MAX
    /\ removals = USIZE_MAX - 1

\* ---- the free list ---------------------------------------------------------------
\* the chain of slot indices from head along next_free, for as long as it
\* stays on Free slots not yet visited; `end` tells how it stops: "None" (its
\* proper end), "Occupied", "cycle" or "out of bounds"
RECURSIVE FreeChainFrom(_, _, _)
FreeChainFrom(self, head, visited) ==
    IF head = None THEN [chain |-> visited, end |-> "None"]
    ELSE IF head[1] \notin DOMAIN self.items
         THEN [chain |-> visited, end |-> "out of bounds"]
    ELSE IF self.items[head[1]].tag = "Occupied"
         THEN [chain |-> visited, end |-> "Occupied"]
    ELSE IF \E k \in 1 .. Len(visited) : visited[k] = head[1]
         THEN [chain |-> visited, end |-> "cycle"]
    ELSE FreeChainFrom(self, self.items[head[1]].next_free, Append(visited, head[1]))

FreeChain(self) == FreeChainFrom(self, self.free_list_head, << >>)

\* ---- C13 -----------------------------------------------------------------------
\* C13: in every reachable state the free list from free_list_head is an
\* acyclic chain through Free slots only that ends in None; hence the
\* "corrupt free list" panic of try_insert (a head on an Occupied slot) cannot
\* happen, whatever calls were made.
C13_FreeListAcyclic ==
    /\ LET walk == FreeChain(arena) IN
       /\ walk.end = "None"
       /\ \A k \in 1 .. Len(walk.chain) : items[walk.chain[k]].tag = "Free"
    /\ panicked # Some("corrupt free list")
    /\ \A value \in T : try_insert(arena, value).panic = None

\* removals have relinked the chain against the order of the positions
C13_Witness ==
    /\ Len(FreeChain(arena).chain) = ELEMENTS_COUNT
    /\ free_list_head = Some(ELEMENTS_COUNT - 1)
    /\ items[ELEMENTS_COUNT - 1].next_free # None
    /\ panicked = None

\* ---- C14 -----------------------------------------------------------------------
\* C14: no slot is ever leaked: in every reachable state the free-list chain
\* visits every Free slot exactly once (its length is ELEMENTS_COUNT minus the
\* live-count), so free_list_head is None exactly when the live-count is
\* ELEMENTS_COUNT, and try_insert succeeds whenever fewer than ELEMENTS_COUNT
\* slots are Occupied.
C14_NoLeak ==
    LET chain == FreeChain(arena).chain IN
    /\ FreeChain(arena).end = "None"
    /\ {chain[k] : k \in 1 .. Len(chain)} = SlotIndex \ OccupiedSlots
    /\ \A j \in 1 .. Len(chain), k \in 1 .. Len(chain) : chain[j] = chain[k] => j = k
    /\ Len(chain) = ELEMENTS_COUNT - len
    /\ (free_list_head = None) <=> (len = ELEMENTS_COUNT)
    /\ Cardinality(OccupiedSlots) < ELEMENTS_COUNT =>
           \A value \in T : ReturnedOk(try_insert(arena, value))

\* what holds instead: the same, in the states no call has panicked in
C14_NoLeakUnlessPanicked == panicked = None => C14_NoLeak

\* ---- C15 -----------------------------------------------------------------------
\* what the arena and the abstract map M answer alike, for the handles of the
\* arena's positions (every handle it has issued is one): try_insert succeeds
\* exactly when M holds fewer than ELEMENTS_COUNT keys, and under a key M does
\* not hold; get and contains answer as M; capacity() is the number of keys
C15_SameAnswers ==
    /\ capacity(arena) = Cardinality(M_keys(M))
    /\ Cardinality(M) = Cardinality(M_keys(M))
    /\ \A value \in T :
           LET r == try_insert(arena, value) IN
           /\ r.panic = None
           /\ (r.ret.tag = "Ok") <=> (Cardinality(M_keys(M)) < ELEMENTS_COUNT)
           /\ r.ret.tag = "Ok" => r.ret.val \notin M_keys(M)
           /\ r.ret.tag = "Err" => r = Returned(arena, Err(value))
    /\ \A h \in GenerationIndex :
           h.index \in SlotIndex =>
               /\ get(arena, h) = M_get(M, h)
               /\ contains(arena, h) <=> (h \in M_keys(M))
               /\ h \notin M_keys(M) => ReturnedNone(remove(arena, h))

\* C15 as claimed: the arena refines the abstract bounded map M (try_insert adds
\* a fresh key iff |M| < ELEMENTS_COUNT, remove(h) deletes h and returns M[h] iff
\* h is in M, get_mut writes M[h]): after any sequence of calls the arena gives
\* the outcome of M for try_insert, remove, get and contains on every handle it
\* has issued, and capacity() is |M|.
C15_RefinesMap ==
    /\ C15_SameAnswers
    /\ \A h \in GenerationIndex :
           (h.index \in SlotIndex /\ h \in M_keys(M)) =>
               /\ ReturnedSome(remove(arena, h))
               /\ remove(arena, h).ret = M_get(M, h)

\* C15 as amended: the same in every state reached before any call has
\* panicked, but for remove(h) with h in M while the counter holds the largest
\* usize: there the arena panics where M returns M[h].
C15_RefinesMapUntilExhausted ==
    panicked = None =>
        /\ C15_SameAnswers
        /\ \A h \in GenerationIndex :
               (h.index \in SlotIndex /\ h \in M_keys(M)) =>
                   LET r == remove(arena, h) IN
                   IF generation < USIZE_MAX
                   THEN /\ ReturnedSome(r)
                        /\ r.ret = M_get(M, h)
                        /\ get(r.self, h) = M_get(M_remove(M, h), h)
                   ELSE r.panic = Some("exhausted generation counter")

\* the map is full while a key it held is gone and its position holds a new key
C15_Witness ==
    /\ panicked = None
    /\ Cardinality(M_keys(M)) = ELEMENTS_COUNT
    /\ \E h \in GenerationIndex, e \in M :
           Tombstoned(h) /\ e.handle.index = h.index /\ h \notin M_keys(M)
    /\ \E e \in M, f \in M : e.value # f.value

\* ---- C16 -----------------------------------------------------------------------
\* what a remove(h) that frees h's slot does, and the try_insert right after it:
\* the value held is returned, the slot becomes Free linked to the previous
\* head, h's position becomes the head, the live-count drops by one; the next
\* try_insert succeeds at h's position with the counter before the removal
\* plus 1, and puts the head back
C16_Reuse(h) ==
    LET r == remove(arena, h) IN
    /\ ReturnedSome(r)
    /\ r.ret = get(arena, h)
    /\ r.self.items[h.index] = Free(free_list_head)
    /\ r.self.free_list_head = Some(h.index)
    /\ r.self.len = len - 1
    /\ \A value \in T :
           LET again == try_insert(r.self, value) IN
           /\ ReturnedOk(again)
           /\ again.ret.val = [index |-> h.index, generation |-> generation + 1]
           /\ again.self.free_list_head = free_list_head
           /\ get(again.self, again.ret.val) = Some(value)

\* C16 as claimed (LIFO slot reuse): a matching remove(h) returns the held value,
\* frees the slot with its next-free link set to the previous free-list head and
\* makes h's position the new head; so the try_insert that immediately follows
\* succeeds and returns a handle at h's position whose generation is the
\* counter before the removal plus 1.
C16_LifoReuse ==
    \A h \in GenerationIndex : get(arena, h) # None => C16_Reuse(h)

\* C16 as amended: the same of a matching remove(h) called while the counter is
\* below the largest usize.
C16_LifoReuseBelowMax ==
    \A h \in GenerationIndex :
        (get(arena, h) # None /\ generation < USIZE_MAX) => C16_Reuse(h)

\* a handle was removed and the try_insert right after it got its position,
\* although another slot was free
C16_Witness ==
    \E h \in GenerationIndex, b \in batch :
        /\ Tombstoned(h)
        /\ batch = {b}
        /\ b.handle = [index |-> h.index, generation |-> h.generation + 1]
        /\ b.handle.generation = generation
        /\ len < ELEMENTS_COUNT

\* ---- C17 -----------------------------------------------------------------------
\* C17: a freshly constructed arena (ELEMENTS_COUNT > 0) has all its slots Free,
\* slot i linked to i + 1 and the last one to None, the head at slot 0, the
\* generation counter 1 and the live-count 0; hence, with no removal, the k-th
\* successful try_insert (k = 0 .. ELEMENTS_COUNT - 1) returns the handle
\* (position k, generation 1).
C17_FreshArena ==
    /\ (removals = 0 /\ batch = {}) =>
           /\ \A i \in SlotIndex :
                  items[i] = Free(IF i + 1 < ELEMENTS_COUNT THEN Some(i + 1) ELSE None)
           /\ DOMAIN items = 0 .. (ELEMENTS_COUNT - 1)
           /\ free_list_head = Some(0)
           /\ generation = 1
           /\ len = 0
    /\ (removals = 0 /\ Cardinality(batch) < ELEMENTS_COUNT) =>
           \A value \in T :
               try_insert(arena, value).ret =
                   Ok([index |-> Cardinality(batch), generation |-> 1])
    /\ removals = 0 =>
           {b.handle : b \in batch} =
               {[index |-> k, generation |-> 1] : k \in 0 .. (Cardinality(batch) - 1)}

\* the ELEMENTS_COUNT inserts into the fresh arena have been made
C17_Witness ==
    /\ removals = 0
    /\ {b.handle : b \in batch} = {[index |-> k, generation |-> 1] : k \in SlotIndex}
    /\ len = ELEMENTS_COUNT

\* ---- C18 -----------------------------------------------------------------------
\* C18: every handle try_insert returns has a position < ELEMENTS_COUNT, so the
\* bounds assertion of remove never fails for a handle this arena has issued,
\* whatever was called between issuing it and removing it; the assertion
\* fails for the handles with a position >= ELEMENTS_COUNT, and for those
\* only.  (The other panic of remove is the exhausted counter, for a matching
\* handle.)
C18_AssertionFailed(r) ==
    r.panic = Some("assertion failed: generation_index.index < ELEMENTS_COUNT")

C19_AbortLeavesArena ==
    /\ \A h \in GenerationIndex :
           remove(arena, h).panic = Some("exhausted generation counter") =>
               /\ remove(arena, h).self.items[h.index] = items[h.index]
               /\ remove(arena, h).self.free_list_head = free_list_head
               /\ remove(arena, h).self.len = len
               /\ remove(arena, h).self = arena
    /\ panicked = Some("exhausted generation counter") =>
           /\ len = Cardinality(OccupiedSlots)
           /\ Len(FreeChain(arena).chain) = ELEMENTS_COUNT - Cardinality(OccupiedSlots)

\* what the aborted remove does leave: free_list_head, live-count and counter
\* as they were and every other slot too, but the slot itself Free, linked to
\* the head, its value gone: the live-count is one more than the Occupied
\* slots and the slot is on no free list
C19_AbortLeavesSlotFree ==
    /\ \A h \in GenerationIndex :
           remove(arena, h).panic = Some("exhausted generation counter") =>
               /\ remove(arena, h).self =
                      [arena EXCEPT !.items[h.index] = Free(free_list_head)]
               /\ get(remove(arena, h).self, h) = None
    /\ panicked = Some("exhausted generation counter") =>
           /\ len = Cardinality(OccupiedSlots) + 1
           /\ Len(FreeChain(arena).chain) = ELEMENTS_COUNT - Cardinality(OccupiedSlots) - 1
           /\ generation = USIZE_MAX

\* ---- C20 -----------------------------------------------------------------------
\* the arena of tests::index_deleted_item before its last line: one try_insert
\* has returned idx, remove(idx) has returned its value, nothing else has
\* changed the arena
C20_Scenario(idx) ==
    /\ Tombstoned(idx)
    /\ idx = [index |-> 0, generation |-> 1]
    /\ removals = 1
    /\ len = 0
    /\ batch = {}
    /\ panicked = None

\* C20 as claimed: in the scenario insert 42 -> idx, remove(idx), get(idx), the
\* query of the removed handle takes the fatal path: the arena's get itself
\* ends in a panic and returns no recoverable absent result.
C20_QueryAborts ==
    \A idx \in GenerationIndex :
        C20_Scenario(idx) => get(arena, idx) # None

\* C20 as amended: in that scenario, and for every handle remove has returned a
\* value for, get returns the recoverable absent result; the panic the test
\* expects is that of the caller's unwrap() of this None.
C20_QueryReturnsAbsent ==
    \A idx \in GenerationIndex :
        (C20_Scenario(idx) \/ Tombstoned(idx)) =>
            /\ get(arena, idx) = None
            /\ Option_unwrap(get(arena, idx)).panic # None
            /\ panicked = None => \A value \in T :
                   ReturnedOk(try_insert(arena, value)) =>
                       Option_unwrap(get(try_insert(arena, value).self, idx)).panic # None

\* the scenario of the test
C20_Witness ==
    \E idx \in GenerationIndex : C20_Scenario(idx) /\ M = {}

====
